---------------------------- MODULE Spec2Model ----------------------------
(***************************************************************************)
(* A model of persephone's batch / metric utilities (src/src/utils.py):    *)
(* target_list_to_sparse_tensor, zero_pad, collapse, load_batch_x,         *)
(* batch_per, get_prefixes, get_prefix_lens and filter_by_size.            *)
(*                                                                         *)
(* Every function of the file is synchronous and keeps no state between    *)
(* calls, so each one is an operator computed the way the code computes    *)
(* it, and a call is one step of a two-state machine: Init draws the       *)
(* arguments, the action applies the function and records what it returns  *)
(* or raises.                                                              *)
(*                                                                         *)
(* A numpy array is a record [shape, data]: shape is the tuple of          *)
(* dimensions and data maps every 0-based index tuple to the element.      *)
(* A raised exception is a record [raised |-> <exception name>].           *)
(***************************************************************************)
EXTENDS Integers, Sequences, FiniteSets, TLC

VARIABLES pc, call, ret

vars == <<pc, call, ret>>

\* ------------------------------------------------------------------ bounds
\* Most arrays / sequences in one batch.
MaxN == 2
\* Longest time axis of a feature array.
MaxT == 2
\* Largest trailing (channel / feature) dimension of a feature array.
MaxDim == 2

\* ------------------------------------------------------------ generalities
Raise(name) == [raised |-> name]

IsErr(x) == "raised" \in DOMAIN x

NoValue == [none |-> TRUE]

Range(s) == {s[i] : i \in DOMAIN s}

RECURSIVE SumSeq(_)
SumSeq(s) == IF s = <<>> THEN 0 ELSE s[1] + SumSeq(Tail(s))

MaxSet(S) == CHOOSE m \in S : \A x \in S : x <= m

\* ------------------------------------------------------------ numpy arrays
\* All 0-based index tuples of an array of the given shape.
RECURSIVE Indices(_)
Indices(shape) ==
    IF shape = <<>> THEN {<<>>}
    ELSE {<<i>> \o r : i \in 0..(shape[1] - 1), r \in Indices(Tail(shape))}

\* np.zeros(shape)
Zeros(shape) == [shape |-> shape, data |-> [idx \in Indices(shape) |-> 0]]

\* a[k], the k-th item (0-based) along the first axis.
Item(a, k) ==
    [shape |-> Tail(a.shape),
     data  |-> [idx \in Indices(Tail(a.shape)) |-> a.data[<<k>> \o idx]]]

\* Iterating an array yields its items along the first axis.
Items(a) == [k \in 1..a.shape[1] |-> Item(a, k - 1)]

\* np.array(list of equally-shaped arrays): a new leading axis.  An empty list
\* gives the 1-d array of shape (0,).
Stack(rows) ==
    IF rows = <<>> THEN Zeros(<<0>>)
    ELSE LET shape == <<Len(rows)>> \o rows[1].shape
         IN  [shape |-> shape,
              data  |-> [idx \in Indices(shape) |-> rows[idx[1] + 1].data[Tail(idx)]]]

\* np.array(list of numbers): the 1-d array of the list's entries, in order.
Array1(list) ==
    [shape |-> <<Len(list)>>,
     data  |-> [idx \in Indices(<<Len(list)>>) |-> list[idx[1] + 1]]]

\* np.swapaxes(a, 0, 1); numpy raises AxisError on an array of fewer than 2 axes.
SwapAxes01(a) ==
    IF Len(a.shape) < 2 THEN Raise("AxisError")
    ELSE LET shape == <<a.shape[2], a.shape[1]>> \o SubSeq(a.shape, 3, Len(a.shape))
         IN  [shape |-> shape,
              data  |-> [idx \in Indices(shape) |->
                            a.data[<<idx[2], idx[1]>> \o SubSeq(idx, 3, Len(idx))]]]

\* np.concatenate(pieces, axis=1) of equally-shaped pieces: ValueError on no
\* piece, AxisError when the pieces have no axis 1.
Concatenate1(pieces) ==
    IF pieces = <<>> THEN Raise("ValueError")
    ELSE IF Len(pieces[1].shape) < 2 THEN Raise("AxisError")
    ELSE LET s == pieces[1].shape
             w == s[2]
             shape == <<s[1], w * Len(pieces)>> \o SubSeq(s, 3, Len(s))
         IN  [shape |-> shape,
              data  |-> [idx \in Indices(shape) |->
                            pieces[(idx[2] \div w) + 1].data[
                                <<idx[1], idx[2] % w>> \o SubSeq(idx, 3, Len(idx))]]]

\* np.transpose(a, (1, 0, 2)): ValueError unless a has exactly 3 axes.
Transpose102(a) ==
    IF Len(a.shape) # 3 THEN Raise("ValueError")
    ELSE LET shape == <<a.shape[2], a.shape[1], a.shape[3]>>
         IN  [shape |-> shape,
              data  |-> [idx \in Indices(shape) |-> a.data[<<idx[2], idx[1], idx[3]>>]]]

\* The shape numpy assignment gives the source: unit dimensions are stripped
\* from the left while the source has more axes than the destination.
RECURSIVE StripLeadingOnes(_, _)
StripLeadingOnes(sshape, n) ==
    IF Len(sshape) > n /\ sshape[1] = 1 THEN StripLeadingOnes(Tail(sshape), n)
    ELSE sshape

\* Whether numpy can broadcast a source of shape sshape into a destination of
\* shape dshape: after the stripping, the shapes are aligned at the right and
\* every source dimension is the destination's or 1.
CanBroadcast(sshape, dshape) ==
    LET s == StripLeadingOnes(sshape, Len(dshape))
        off == Len(dshape) - Len(s)
    IN  /\ off >= 0
        /\ \A k \in 1..Len(s) : s[k] = dshape[off + k] \/ s[k] = 1

\* dst[...] = src of numpy: src broadcast to the shape dshape, or ValueError.
\* A source dimension of 1 (stripped or not) is read at index 0.
BroadcastTo(src, dshape) ==
    IF ~CanBroadcast(src.shape, dshape) THEN Raise("ValueError")
    ELSE LET n == Len(src.shape)
             m == Len(StripLeadingOnes(src.shape, Len(dshape)))
             off == Len(dshape) - m
         IN  [shape |-> dshape,
              data  |-> [idx \in Indices(dshape) |->
                            src.data[[k \in 1..n |->
                                IF k <= n - m THEN 0
                                ELSE IF src.shape[k] = 1 THEN 0
                                ELSE idx[off + (k - (n - m))]]]]]

\* ------------------------------------------------- zero_pad, collapse, load
\* assert matrix.shape[0] <= to_length; result = np.zeros((to_length,) +
\* matrix.shape[1:]); result[:matrix.shape[0]] = matrix
zero_pad(matrix, to_length) ==
    IF ~(matrix.shape[1] <= to_length) THEN Raise("AssertionError")
    ELSE LET shape == <<to_length>> \o Tail(matrix.shape)
         IN  [shape |-> shape,
              data  |-> [idx \in Indices(shape) |->
                            IF idx[1] < matrix.shape[1] THEN matrix.data[idx] ELSE 0]]

\* The first exception among a list of results, in list order.
FirstErr(rs) == rs[CHOOSE i \in DOMAIN rs :
                      IsErr(rs[i]) /\ \A j \in 1..(i - 1) : ~IsErr(rs[j])]

AnyErr(rs) == \E i \in DOMAIN rs : IsErr(rs[i])

\* A slip that leaves out the swap and concatenates the utterance's own items.
collapse_utterance_unswapped(utterance) ==
    IF Len(utterance.shape) < 1 THEN Raise("TypeError")
    ELSE Concatenate1(Items(utterance))

\* The loop body of collapse: swap the utterance's first two axes, then
\* concatenate the items of the swapped array along axis 1.
collapse_utterance(utterance) ==
    LET swapped == SwapAxes01(utterance)
    IN  IF IsErr(swapped) THEN swapped ELSE Concatenate1(Items(swapped))

collapse(batch_x, time_major) ==
    LET new_batch_x == [n \in 1..batch_x.shape[1] |->
                            collapse_utterance(Item(batch_x, n - 1))]
    IN  IF AnyErr(new_batch_x) THEN FirstErr(new_batch_x)
        ELSE IF time_major THEN Transpose102(Stack(new_batch_x))
        ELSE Stack(new_batch_x)

\* A slip that records every utterance's padded length, not its own.
utter_lens_padded(utterances) ==
    [i \in 1..Len(utterances) |->
        MaxSet({utterances[j].shape[1] : j \in 1..Len(utterances)})]

\* utter_lens = [utterance.shape[0] for utterance in utterances]
utter_lens(utterances) == [i \in 1..Len(utterances) |-> utterances[i].shape[1]]

\* load_batch_x on the arrays np.load reads at the paths of path_batch, in
\* path order.  max() of an empty list raises ValueError; batch[i] = ... raises
\* ValueError when the padded utterance cannot be broadcast into a row.
load_batch_x(utterances, flatten, time_major) ==
    IF utterances = <<>> THEN Raise("ValueError")
    ELSE LET lens == utter_lens(utterances)
             max_len == MaxSet(Range(lens))
             batch_size == Len(utterances)
             shape == <<batch_size, max_len>> \o Tail(utterances[1].shape)
             padded == [i \in 1..batch_size |-> zero_pad(utterances[i], max_len)]
             rows == [i \in 1..batch_size |->
                         IF IsErr(padded[i]) THEN padded[i]
                         ELSE BroadcastTo(padded[i], Tail(shape))]
         IN  IF AnyErr(rows) THEN FirstErr(rows)
             ELSE LET batch == Stack(rows)
                      out == IF flatten THEN collapse(batch, time_major) ELSE batch
                  IN  IF IsErr(out) THEN out
                      ELSE [batch |-> out, utter_lens |-> Array1(lens)]

\* ------------------------------------------------------------------ inputs
\* A code of an index tuple, different for different tuples of one array.
RECURSIVE Code(_)
Code(idx) == IF idx = <<>> THEN 0
             ELSE idx[Len(idx)] + 10 * Code(SubSeq(idx, 1, Len(idx) - 1))

\* The feature array of the given shape whose elements are all different:
\* element idx is base + Code(idx).
FeatArray(shape, base) ==
    [shape |-> shape, data |-> [idx \in Indices(shape) |-> base + Code(idx)]]

\* Trailing (non-time) shapes of a stored feature array: (F) or (C, F).
TrailShapes == {<<f>> : f \in 1..MaxDim} \cup {<<c, f>> : c, f \in 1..MaxDim}

\* The feature arrays the i-th path of a batch may hold; arrays at different
\* paths share no element, and only the first has a 0 element.
Utterances(i) == {FeatArray(<<t>> \o tr, 1000 * (i - 1)) : t \in 1..MaxT, tr \in TrailShapes}

RECURSIVE Batches(_)
Batches(n) == IF n = 0 THEN {<<>>}
              ELSE {Append(b, u) : b \in Batches(n - 1), u \in Utterances(n)}

\* ------------------------------------------------- specification: batching
InitBatch ==
    /\ pc = "call"
    /\ \E n \in 0..MaxN : \E b \in Batches(n) : \E fl, tm \in BOOLEAN :
          call = [fn |-> "load_batch_x", utterances |-> b,
                  flatten |-> fl, time_major |-> tm]
    /\ ret = NoValue

CallLoadBatchX ==
    /\ pc = "call"
    /\ call.fn = "load_batch_x"
    /\ ret' = load_batch_x(call.utterances, call.flatten, call.time_major)
    /\ pc' = "done"
    /\ UNCHANGED call

NextBatch == CallLoadBatchX

SpecBatch == InitBatch /\ [][NextBatch]_vars

\* --------------------------------------------------------- claims: batching
BatchDone == pc = "done" /\ call.fn = "load_batch_x"

BatchReturned == BatchDone /\ ~IsErr(ret)

\* Row i of a returned batch is input array i followed by zeros: it has the
\* input's trailing shape, agrees with the input in the first len_i time
\* positions and is 0 from len_i on.
RowIsPaddedInput(row, u) ==
    /\ Tail(row.shape) = Tail(u.shape)
    /\ \A idx \in Indices(row.shape) :
          row.data[idx] = IF idx[1] < u.shape[1] THEN u.data[idx] ELSE 0

\* C1: with flatten off, every row i of the batch load_batch_x returns equals
\* input array i in its first len_i time positions and is zero from len_i up
\* to the longest length of the batch, so cutting the row back to len_i gives
\* input array i again.  (Stated for batches whose arrays all have the same
\* number of axes.)
C1_RowsArePaddedInputs ==
    (BatchReturned /\ ~call.flatten
       /\ \A i \in 1..Len(call.utterances) :
              Len(call.utterances[i].shape) = Len(call.utterances[1].shape)) =>
        /\ ret.batch.shape[1] = Len(call.utterances)
        /\ ret.batch.shape[2] = MaxSet({call.utterances[i].shape[1] :
                                           i \in 1..Len(call.utterances)})
        /\ \A i \in 1..Len(call.utterances) :
              RowIsPaddedInput(Item(ret.batch, i - 1), call.utterances[i])

\* C2: whatever flatten and time_major are, the length vector load_batch_x
\* returns has one entry per input array, in input order, and entry i is the
\* first-axis size of input array i.
C2_LengthsInInputOrder ==
    BatchReturned =>
        /\ ret.utter_lens.shape = <<Len(call.utterances)>>
        /\ \A i \in 1..Len(call.utterances) :
              ret.utter_lens.data[<<i - 1>>] = call.utterances[i].shape[1]

\* A returned batch of two arrays of different lengths, flattened and
\* time-major.
C2_Witness ==
    /\ BatchReturned
    /\ call.flatten /\ call.time_major
    /\ Len(call.utterances) = 2
    /\ call.utterances[1].shape[1] > call.utterances[2].shape[1]
    /\ call.utterances[2].shape[1] > 0

\* C6: with time_major set, flatten set or not, the batch load_batch_x
\* returns is the (batch, time, ...) batch with its first two axes permuted.
C6_TimeMajorAlwaysPermutes ==
    (BatchReturned /\ call.time_major) =>
        ret.batch = SwapAxes01(load_batch_x(call.utterances, call.flatten, FALSE).batch)

\* C8: load_batch_x raises a shape-mismatch error whenever two arrays of the
\* batch disagree in a trailing (non-time) dimension, a trailing dimension of
\* 1 included.  (Stated for arrays of one rank, whose trailing dimensions
\* correspond one to one.)
C8_TrailingMismatchRaises ==
    (BatchDone /\ \E i, j \in 1..Len(call.utterances) :
                      /\ Len(call.utterances[i].shape) = Len(call.utterances[j].shape)
                      /\ Tail(call.utterances[i].shape) # Tail(call.utterances[j].shape))
        => (IsErr(ret) /\ ret.raised = "ValueError")

\* ------------------------------------------ target_list_to_sparse_tensor
\* Longest label sequence of a target list.
MaxLen == 2
\* Largest label id of a target sequence.
MaxLabel == 1

RECURSIVE Flatten(_)
Flatten(seqs) == IF seqs = <<>> THEN <<>> ELSE seqs[1] \o Flatten(Tail(seqs))

\* The two nested enumerate loops: indices gets [t_i, seq_i] and vals gets val
\* for every label of every target, target by target.
sparse_indices(target_list) ==
    Flatten([t \in 1..Len(target_list) |->
                [k \in 1..Len(target_list[t]) |-> <<t - 1, k - 1>>]])

sparse_vals(target_list) == Flatten(target_list)

\* A variant whose maximum over no index pair is -1, where numpy raises.
max_seq_i_lenient(indices) ==
    IF indices = <<>> THEN [value |-> -1]
    ELSE [value |-> MaxSet({indices[k][2] : k \in 1..Len(indices)})]

\* A slip that takes the column of the last index pair, not the largest.
max_seq_i_last(indices) ==
    IF indices = <<>> THEN Raise("ValueError")
    ELSE [value |-> indices[Len(indices)][2]]

\* np.asarray(indices).max(0)[1]: the largest seq_i of the index pairs; the
\* maximum of an empty array raises ValueError.
max_seq_i(indices) ==
    IF indices = <<>> THEN Raise("ValueError")
    ELSE [value |-> MaxSet({indices[k][2] : k \in 1..Len(indices)})]

target_list_to_sparse_tensor(target_list) ==
    LET indices == sparse_indices(target_list)
        vals == sparse_vals(target_list)
        m == max_seq_i(indices)
    IN  IF IsErr(m) THEN m
        ELSE [indices |-> indices, vals |-> vals,
              shape |-> <<Len(target_list), m.value + 1>>]

\* Label sequences of length 0..MaxLen over the labels 0..MaxLabel.
LabelSeqs == UNION {[1..n -> 0..MaxLabel] : n \in 0..MaxLen}

TargetLists == UNION {[1..n -> LabelSeqs] : n \in 0..MaxN}

InitSparse ==
    /\ pc = "call"
    /\ \E tl \in TargetLists :
          call = [fn |-> "target_list_to_sparse_tensor", target_list |-> tl]
    /\ ret = NoValue

CallSparse ==
    /\ pc = "call"
    /\ call.fn = "target_list_to_sparse_tensor"
    /\ ret' = target_list_to_sparse_tensor(call.target_list)
    /\ pc' = "done"
    /\ UNCHANGED call

NextSparse == CallSparse

SpecSparse == InitSparse /\ [][NextSparse]_vars

SparseDone == pc = "done" /\ call.fn = "target_list_to_sparse_tensor"

\* Decoding a sparse triple: the values scattered at their indices into a
\* zero-filled array of the triple's shape.
Scatter(t) ==
    [r \in 0..(t.shape[1] - 1), c \in 0..(t.shape[2] - 1) |->
        IF \E k \in 1..Len(t.indices) : t.indices[k] = <<r, c>>
        THEN t.vals[CHOOSE k \in 1..Len(t.indices) : t.indices[k] = <<r, c>>]
        ELSE 0]

\* The target list as a dense array, every row zero-padded to width w.
PaddedTargets(target_list, w) ==
    [r \in 0..(Len(target_list) - 1), c \in 0..(w - 1) |->
        IF c < Len(target_list[r + 1]) THEN target_list[r + 1][c + 1] ELSE 0]

LongestTarget(target_list) ==
    MaxSet({Len(target_list[i]) : i \in 1..Len(target_list)})

\* C3: for a list of N label sequences, target_list_to_sparse_tensor returns
\* as many index pairs as values as labels in the list, the shape (N, longest
\* sequence length), and scattering the values at the indices into zeros of
\* that shape gives the sequences zero-padded to the longest length.
C3_SparseRoundTrip ==
    (SparseDone /\ ~IsErr(ret)) =>
        LET tl == call.target_list
        IN  /\ Len(ret.indices) = Len(ret.vals)
            /\ Len(ret.vals) = SumSeq([i \in 1..Len(tl) |-> Len(tl[i])])
            /\ ret.shape = <<Len(tl), LongestTarget(tl)>>
            /\ \A k, l \in 1..Len(ret.indices) :
                  ret.indices[k] = ret.indices[l] => k = l
            /\ Scatter(ret) = PaddedTargets(tl, LongestTarget(tl))

\* A returned triple for two sequences, the longer one first, with a non-zero
\* label in each.
C3_Witness ==
    /\ SparseDone /\ ~IsErr(ret)
    /\ Len(call.target_list) = 2
    /\ Len(call.target_list[1]) > Len(call.target_list[2])
    /\ \A i \in 1..2 : \E k \in 1..Len(call.target_list[i]) : call.target_list[i][k] # 0

PAD == 0

\* The phoneme ids of the scored rows, and the fixed-width rows themselves:
\* PAD may stand anywhere in a row.
Phones == {1, 2}

PerRows == {<<a, b>> : a, b \in Phones \cup {PAD}}

\* Exact fractions <<numerator, denominator>> in lowest terms stand for the
\* floats of the code.
RECURSIVE GCD(_, _)
GCD(a, b) == IF b = 0 THEN a ELSE GCD(b, a % b)

Frac(n, d) == IF n = 0 THEN <<0, 1>> ELSE <<n \div GCD(n, d), d \div GCD(n, d)>>

FracAdd(x, y) == Frac(x[1] * y[2] + y[1] * x[2], x[2] * y[2])

\* [phn_i for phn_i in row if phn_i != 0]
RECURSIVE strip_pad(_)
strip_pad(row) ==
    IF row = <<>> THEN <<>>
    ELSE IF row[1] # PAD THEN <<row[1]>> \o strip_pad(Tail(row))
    ELSE strip_pad(Tail(row))

Min3(a, b, c) == IF a <= b /\ a <= c THEN a ELSE IF b <= c THEN b ELSE c

\* nltk's distance.edit_distance(s1, s2) with its defaults (substitution cost
\* 1, no transpositions): the last cell of the dynamic-programming table.
edit_distance(s1, s2) ==
    LET lev[i \in 0..Len(s1), j \in 0..Len(s2)] ==
            IF i = 0 THEN j
            ELSE IF j = 0 THEN i
            ELSE Min3(lev[i - 1, j] + 1,
                      lev[i, j - 1] + 1,
                      lev[i - 1, j - 1] + (IF s1[i] = s2[j] THEN 0 ELSE 1))
    IN  lev[Len(s1), Len(s2)]

\* A slip that divides by the width of the reference row, padding included.
pair_per_by_width(hyp_row, ref_row) ==
    LET ref == strip_pad(ref_row)
        hyp == strip_pad(hyp_row)
    IN  IF Len(ref_row) = 0 THEN Raise("ZeroDivisionError")
        ELSE [value |-> Frac(edit_distance(ref, hyp), Len(ref_row))]

\* The body of batch_per's loop for one pair: both rows stripped of PAD,
\* edit_distance(ref, hyp)/len(ref); a division by 0 raises.
pair_per(hyp_row, ref_row) ==
    LET ref == strip_pad(ref_row)
        hyp == strip_pad(hyp_row)
    IN  IF Len(ref) = 0 THEN Raise("ZeroDivisionError")
        ELSE [value |-> Frac(edit_distance(ref, hyp), Len(ref))]

\* total_per after the first n passes of the loop, or what a pass raised.
RECURSIVE total_per(_, _, _)
total_per(hyps, refs, n) ==
    IF n = 0 THEN [value |-> <<0, 1>>]
    ELSE LET before == total_per(hyps, refs, n - 1)
         IN  IF IsErr(before) THEN before
             ELSE IF n > Len(refs) THEN Raise("IndexError")
             ELSE LET per == pair_per(hyps[n], refs[n])
                  IN  IF IsErr(per) THEN per
                      ELSE [value |-> FracAdd(before.value, per.value)]

batch_per(hyps, refs) ==
    LET total == total_per(hyps, refs, Len(hyps))
    IN  IF IsErr(total) THEN total
        ELSE IF Len(hyps) = 0 THEN Raise("ZeroDivisionError")
        ELSE [value |-> Frac(total.value[1], total.value[2] * Len(hyps))]

InitPer ==
    /\ pc = "call"
    /\ \E n \in 0..MaxN : \E hyps, refs \in [1..n -> PerRows] :
          call = [fn |-> "batch_per", hyps |-> hyps, refs |-> refs]
    /\ ret = NoValue

CallBatchPer ==
    /\ pc = "call"
    /\ call.fn = "batch_per"
    /\ ret' = batch_per(call.hyps, call.refs)
    /\ pc' = "done"
    /\ UNCHANGED call

NextPer == CallBatchPer

SpecPer == InitPer /\ [][NextPer]_vars

\* The Levenshtein distance, stated without the table of the code: the
\* least number of single edits (delete one symbol, substitute one, insert
\* one) that turn a into b.  Intermediate sequences need not be longer than
\* the longer of the two.
PhoneSeqs == UNION {[1..n -> Phones] : n \in 0..2}

OneEdit(s) ==
    {t \in PhoneSeqs :
        \/ /\ Len(t) = Len(s) - 1
           /\ \E k \in 1..Len(s) : t = SubSeq(s, 1, k - 1) \o SubSeq(s, k + 1, Len(s))
        \/ /\ Len(t) = Len(s)
           /\ Cardinality({k \in 1..Len(s) : t[k] # s[k]}) = 1
        \/ /\ Len(t) = Len(s) + 1
           /\ \E k \in 1..Len(t) : s = SubSeq(t, 1, k - 1) \o SubSeq(t, k + 1, Len(t))}

RECURSIVE WithinEdits(_, _)
WithinEdits(a, k) ==
    IF k = 0 THEN {a}
    ELSE LET S == WithinEdits(a, k - 1) IN S \cup UNION {OneEdit(s) : s \in S}

Levenshtein ==
    [a \in PhoneSeqs, b \in PhoneSeqs |->
        CHOOSE k \in 0..(Len(a) + Len(b)) :
            /\ b \in WithinEdits(a, k)
            /\ \A j \in 0..(k - 1) : b \notin WithinEdits(a, j)]

\* The non-PAD entries of a row, in order, stated without recursion.
NonPadCount(row) == Cardinality({k \in 1..Len(row) : row[k] # PAD})

NonPad(row) ==
    CHOOSE t \in PhoneSeqs :
        /\ Len(t) = NonPadCount(row)
        /\ \E pos \in [1..Len(t) -> 1..Len(row)] :
              /\ \A k \in 1..Len(t) : row[pos[k]] # PAD /\ t[k] = row[pos[k]]
              /\ \A k \in 1..(Len(t) - 1) : pos[k] < pos[k + 1]

RECURSIVE ProdSeq(_)
ProdSeq(s) == IF s = <<>> THEN 1 ELSE s[1] * ProdSeq(Tail(s))

PerDone == pc = "done" /\ call.fn = "batch_per"

\* C4: for equal-length batches whose references all have a non-zero entry,
\* batch_per returns the mean over the pairs of (Levenshtein distance of the
\* reference and the hypothesis, both without their 0 entries) / (number of
\* non-zero entries of the reference); and 0 when every hypothesis equals
\* its reference once the zeros are gone.  The returned p/q is compared with
\* the mean after clearing denominators.
C4_MeanNormalisedDistance ==
    (PerDone /\ Len(call.hyps) > 0
       /\ \A i \in 1..Len(call.refs) : NonPadCount(call.refs[i]) > 0) =>
        LET n == Len(call.hyps)
            lens == [i \in 1..n |-> NonPadCount(call.refs[i])]
            dist == [i \in 1..n |-> Levenshtein[NonPad(call.refs[i]), NonPad(call.hyps[i])]]
            all == ProdSeq(lens)
        IN  /\ ~IsErr(ret)
            /\ ret.value[2] > 0
            /\ ret.value[1] * n * all
                 = ret.value[2] * SumSeq([i \in 1..n |-> dist[i] * (all \div lens[i])])
            /\ (\A i \in 1..n : NonPad(call.hyps[i]) = NonPad(call.refs[i]))
                   => ret.value[1] = 0

\* Two scored pairs: one hypothesis with a 0 before a phoneme and a wrong
\* phoneme, one hypothesis that misses a phoneme of its reference.
C4_Witness ==
    /\ PerDone /\ ~IsErr(ret)
    /\ call.refs = <<<<1, 2>>, <<2, 0>>>>
    /\ call.hyps = <<<<0, 1>>, <<1, 0>>>>
    /\ ret.value = <<3, 4>>

\* ---------------------------------------------- specification: collapse
\* The 4-axis batches collapse is given: N utterances of a first axis A, a
\* second axis B and F features, all elements different; any axis may be
\* empty.
CollapseBatches ==
    {FeatArray(<<n, a, b, f>>, 1) :
        n \in 0..MaxN, a \in 0..MaxDim, b \in 0..MaxDim, f \in 0..MaxDim}

InitCollapse ==
    /\ pc = "call"
    /\ \E x \in CollapseBatches : \E tm \in BOOLEAN :
          call = [fn |-> "collapse", batch_x |-> x, time_major |-> tm]
    /\ ret = NoValue

CallCollapse ==
    /\ pc = "call"
    /\ call.fn = "collapse"
    /\ ret' = collapse(call.batch_x, call.time_major)
    /\ pc' = "done"
    /\ UNCHANGED call

NextCollapse == CallCollapse

SpecCollapse == InitCollapse /\ [][NextCollapse]_vars

CollapseDone == pc = "done" /\ call.fn = "collapse"

MaxFiles == 2

\* A string is the tuple of its characters; Python orders strings by the
\* code points of their characters.
Ord == [c \in {".", "/", "a", "b", "d", "s", "x", "y"} |->
           CASE c = "." -> 46 [] c = "/" -> 47 [] c = "a" -> 97 [] c = "b" -> 98
             [] c = "d" -> 100 [] c = "s" -> 115 [] c = "x" -> 120 [] c = "y" -> 121]

\* s < t for Python strings.
RECURSIVE StrLess(_, _)
StrLess(s, t) ==
    IF t = <<>> THEN FALSE
    ELSE IF s = <<>> THEN TRUE
    ELSE IF Ord[s[1]] # Ord[t[1]] THEN Ord[s[1]] < Ord[t[1]]
    ELSE StrLess(Tail(s), Tail(t))

\* filename.endswith(extension)
endswith(filename, extension) ==
    /\ Len(extension) <= Len(filename)
    /\ SubSeq(filename, Len(filename) - Len(extension) + 1, Len(filename)) = extension

\* filename.split(".")[0]: the characters before the first period, all of
\* them when there is none.
RECURSIVE split_first(_)
split_first(filename) ==
    IF filename = <<>> \/ filename[1] = "." THEN <<>>
    ELSE <<filename[1]>> \o split_first(Tail(filename))

\* os.path.join(root, name) for a root that does not end with a separator.
path_join(root, name) == root \o <<"/">> \o name

\* sorted(list): the list put in non-decreasing order, by insertion.
RECURSIVE InsertSorted(_, _)
InsertSorted(x, sortedList) ==
    IF sortedList = <<>> THEN <<x>>
    ELSE IF StrLess(x, sortedList[1]) THEN <<x>> \o sortedList
    ELSE <<sortedList[1]>> \o InsertSorted(x, Tail(sortedList))

RECURSIVE sorted(_)
sorted(list) ==
    IF list = <<>> THEN <<>>
    ELSE InsertSorted(list[Len(list)], sorted(SubSeq(list, 1, Len(list) - 1)))

\* The prefixes list the two loops of get_prefixes build over os.walk: walk is
\* the (root, filenames) of every directory of the tree, in walk order.
RECURSIVE dir_prefixes(_, _, _)
dir_prefixes(root, filenames, extension) ==
    IF filenames = <<>> THEN <<>>
    ELSE (IF endswith(filenames[1], extension)
          THEN <<path_join(root, split_first(filenames[1]))>>
          ELSE <<>>) \o dir_prefixes(root, Tail(filenames), extension)

walk_prefixes(walk, extension) ==
    Flatten([d \in 1..Len(walk) |->
                dir_prefixes(walk[d].root, walk[d].filenames, extension)])

\* A slip that returns the prefixes in walk order.
get_prefixes_unsorted(walk, extension) == walk_prefixes(walk, extension)

get_prefixes(walk, extension) == sorted(walk_prefixes(walk, extension))

\* The file names a directory may hold, and the extensions asked for.
NamePool == {<<"a", ".", "x">>, <<"a", ".", "y", ".", "x">>, <<"b", ".", "x">>,
             <<"a", ".", "y">>, <<"b", "x">>}

Extensions == {<<".", "x">>, <<"x">>}

\* What os.walk may list for one directory: different names, in any order.
FileLists ==
    {fl \in UNION {[1..n -> NamePool] : n \in 0..MaxFiles} :
        \A j, k \in 1..Len(fl) : fl[j] = fl[k] => j = k}

\* The tree: the directory d and its subdirectory d/s, walked top-down.
Walks == {<<[root |-> <<"d">>, filenames |-> top],
            [root |-> <<"d", "/", "s">>, filenames |-> sub]>> :
             top \in FileLists, sub \in FileLists}

InitPrefix ==
    /\ pc = "call"
    /\ \E w \in Walks : \E e \in Extensions :
          call = [fn |-> "get_prefixes", walk |-> w, extension |-> e]
    /\ ret = NoValue

CallGetPrefixes ==
    /\ pc = "call"
    /\ call.fn = "get_prefixes"
    /\ ret' = get_prefixes(call.walk, call.extension)
    /\ pc' = "done"
    /\ UNCHANGED call

NextPrefix == CallGetPrefixes

SpecPrefix == InitPrefix /\ [][NextPrefix]_vars

PrefixDone == pc = "done" /\ call.fn = "get_prefixes"

\* The matching files of the tree, as (directory number, file number).
MatchingFiles ==
    {df \in (1..Len(call.walk)) \X (1..MaxFiles) :
        /\ df[2] <= Len(call.walk[df[1]].filenames)
        /\ \E lead \in 0..Len(call.walk[df[1]].filenames[df[2]]) :
              LET name == call.walk[df[1]].filenames[df[2]]
              IN  name = SubSeq(name, 1, lead) \o call.extension}

\* The identifier of a file: its directory's path, a separator, and the part
\* of its name before the first period.
Identifier(df) ==
    LET name == call.walk[df[1]].filenames[df[2]]
        stop == IF \E k \in 1..Len(name) : name[k] = "."
                THEN CHOOSE k \in 1..Len(name) :
                        name[k] = "." /\ \A j \in 1..(k - 1) : name[j] # "."
                ELSE Len(name) + 1
    IN  call.walk[df[1]].root \o <<"/">> \o SubSeq(name, 1, stop - 1)

\* C9: get_prefixes returns a list sorted ascending with no identifier twice,
\* the identifiers being those of the matching files, also when matching files
\* of one directory share the text before the first period.
C9_SortedAndUnique ==
    PrefixDone =>
        /\ \A k \in 1..(Len(ret) - 1) : StrLess(ret[k], ret[k + 1])
        /\ Range(ret) = {Identifier(df) : df \in MatchingFiles}

\* C9, amended: get_prefixes returns a list in non-decreasing order that holds
\* one entry for every matching file, the file's identifier; matching files of
\* one directory that share the text before the first period give the same
\* identifier once each, so the list may hold an identifier more than once.
C9_SortedOnePerFile ==
    PrefixDone =>
        /\ \A k \in 1..(Len(ret) - 1) : ~StrLess(ret[k + 1], ret[k])
        /\ Len(ret) = Cardinality(MatchingFiles)
        /\ \A df \in MatchingFiles :
              Cardinality({k \in 1..Len(ret) : ret[k] = Identifier(df)})
                  = Cardinality({dg \in MatchingFiles : Identifier(dg) = Identifier(df)})

\* a.x and a.y.x of the directory d both match .x and both give d/a; b.x was
\* listed first.
C9_Witness ==
    /\ PrefixDone
    /\ call.extension = <<".", "x">>
    /\ call.walk[1].filenames = <<<<"b", ".", "x">>, <<"a", ".", "x">>>>
    /\ call.walk[2].filenames = <<<<"a", ".", "y", ".", "x">>, <<"a", ".", "x">>>>
    /\ ret = <<<<"d", "/", "a">>, <<"d", "/", "b">>,
               <<"d", "/", "s", "/", "a">>, <<"d", "/", "s", "/", "a">>>>

\* ------------------------------------------ get_prefix_lens, filter_by_size
\* The prefixes of the corpus.
PrefixNames == {"u1", "u2", "u3"}

\* os.path.join(feat_dir, "%s.%s.npy" % (prefix, feat_type)): the path names
\* the directory, the prefix and the feature type.
feat_path(feat_dir, prefix, feat_type) ==
    [dir |-> feat_dir, file |-> <<prefix, feat_type, "npy">>]

\* get_prefix_lens: every prefix with the first entry of the length vector
\* load_batch_x returns for the one-file batch [path], in prefix order.  fs
\* maps a path to the array stored there.
get_prefix_lens(fs, feat_dir, prefixes, feat_type) ==
    [k \in 1..Len(prefixes) |->
        LET path == feat_path(feat_dir, prefixes[k], feat_type)
            loaded == load_batch_x(<<fs[path]>>, FALSE, FALSE)
        IN  <<prefixes[k], loaded.utter_lens.data[<<0>>]>>]

\* [prefix for prefix, length in prefix_lens if length <= max_samples]
RECURSIVE keep_short(_, _)
keep_short(prefix_lens, max_samples) ==
    IF prefix_lens = <<>> THEN <<>>
    ELSE (IF prefix_lens[1][2] <= max_samples THEN <<prefix_lens[1][1]>> ELSE <<>>)
            \o keep_short(Tail(prefix_lens), max_samples)

filter_by_size(fs, feat_dir, prefixes, feat_type, max_samples) ==
    keep_short(get_prefix_lens(fs, feat_dir, prefixes, feat_type), max_samples)

\* The feature files of the corpus: one array of 1..MaxT time steps and one
\* feature for every prefix.
FileSystems ==
    {[path \in {feat_path("feat", u, "fbank") : u \in PrefixNames} |->
         FeatArray(<<lens[path.file[1]], 1>>, 1)] : lens \in [PrefixNames -> 1..MaxT]}

InitFilter ==
    /\ pc = "call"
    /\ \E fs \in FileSystems : \E n \in 0..MaxN : \E prefixes \in [1..n -> PrefixNames] :
       \E max_samples \in 0..MaxT :
          call = [fn |-> "filter_by_size", fs |-> fs, feat_dir |-> "feat",
                  prefixes |-> prefixes, feat_type |-> "fbank",
                  max_samples |-> max_samples]
    /\ ret = NoValue

CallFilterBySize ==
    /\ pc = "call"
    /\ call.fn = "filter_by_size"
    /\ ret' = filter_by_size(call.fs, call.feat_dir, call.prefixes, call.feat_type,
                             call.max_samples)
    /\ pc' = "done"
    /\ UNCHANGED call

NextFilter == CallFilterBySize

SpecFilter == InitFilter /\ [][NextFilter]_vars

FilterDone == pc = "done" /\ call.fn = "filter_by_size"

\* The length of a prefix's feature array: the first-axis size of its file.
FeatLen(prefix) == call.fs[feat_path(call.feat_dir, prefix, call.feat_type)].shape[1]

\* C10: filter_by_size returns exactly the input prefixes whose feature array
\* is at most max_samples long, and returns them in non-decreasing order of
\* length, whatever the order of the input.
C10_FilteredAndSortedByLength ==
    FilterDone =>
        /\ \A u \in PrefixNames :
              Cardinality({k \in 1..Len(ret) : ret[k] = u})
                  = IF FeatLen(u) <= call.max_samples
                    THEN Cardinality({k \in 1..Len(call.prefixes) : call.prefixes[k] = u})
                    ELSE 0
        /\ \A k \in 1..(Len(ret) - 1) : FeatLen(ret[k]) <= FeatLen(ret[k + 1])

\* ------------------------------------------------------- the whole module
\* Any one call of any of the functions.
Init == InitBatch \/ InitSparse \/ InitPer \/ InitCollapse \/ InitPrefix \/ InitFilter

Next ==
    \/ CallLoadBatchX
    \/ CallSparse
    \/ CallBatchPer
    \/ CallCollapse
    \/ CallGetPrefixes
    \/ CallFilterBySize

Spec == Init /\ [][Next]_vars

=============================================================================
